---- MODULE Spec2Model ----
(***************************************************************************)
(* Model of the tag facet aggregator (collect_buckets, add_pct,            *)
(* build_compact_json of datadog_rca.py) and of the timestamp normalizer   *)
(* (to_utc_with_offset of Slack/slack_convo_viewer.py).                    *)
(*                                                                         *)
(* Strings are sequences of tokens, each token standing for a fixed piece  *)
(* of text: the tag "version:1.2" is <<"version", ":", "1.2">>.  A          *)
(* Counter is the sequence of its [key, cnt] entries in insertion order    *)
(* (a Python dict keeps insertion order).  Percentages are integers in     *)
(* hundredths of a percent: 100.0 is 10000 and 33.33 is 3333.              *)
(***************************************************************************)
EXTENDS Integers, Sequences, FiniteSets, TLC

VARIABLES seen, by_version, by_host, by_error_code, dependencies, operations,
          pc, logs_buckets, report,
          ts, ts_norm, ts_out, ts_pc,
          sl_listresp, sl_scenarios, sl_query, sl_i, sl_env, sl_out, sl_pc,
          sl_result,
          gj_retries, gj_attempt, gj_log, gj_slept, gj_pc, gj_result,
          nat_req, nat_log, nat_pc, nat_resp

aggVars == <<seen, by_version, by_host, by_error_code, dependencies,
             operations, pc, logs_buckets, report>>
tsVars == <<ts, ts_norm, ts_out, ts_pc>>
slVars == <<sl_listresp, sl_scenarios, sl_query, sl_i, sl_env, sl_out, sl_pc,
            sl_result>>
gjVars == <<gj_retries, gj_attempt, gj_log, gj_slept, gj_pc, gj_result>>
natVars == <<nat_req, nat_log, nat_pc, nat_resp>>
vars == <<seen, by_version, by_host, by_error_code, dependencies, operations,
          pc, logs_buckets, report, ts, ts_norm, ts_out, ts_pc,
          sl_listresp, sl_scenarios, sl_query, sl_i, sl_env, sl_out, sl_pc,
          sl_result,
          gj_retries, gj_attempt, gj_log, gj_slept, gj_pc, gj_result,
          nat_req, nat_log, nat_pc, nat_resp>>

\* Longest payload list of the general feed.
MaxRecords == 3
\* Longest payload list of the ranking feed.
MaxRankRecords == 7

\* top_list(counter, k=5)
TopK == 5

Min(a, b) == IF a < b THEN a ELSE b

(***************************************************************************)
(* Python values                                                           *)
(***************************************************************************)
\* A str object holding the given tokens.
Str(chars) == [kind |-> "str", chars |-> chars]
\* A list element that is not a str (an int has no startswith).
NonStr == [kind |-> "int", chars |-> <<>>]
\* The tag "<key>:<value tokens>".
Tag(key, val) == Str(<<key, ":">> \o val)

\* Results of an expression: None, a str value, or a raised exception.
NoneR == [tag |-> "none", val |-> <<>>]
ValR(v) == [tag |-> "val", val |-> v]
ExcR == [tag |-> "exc", val |-> <<>>]
IsExc(x) == x.tag = "exc"
\* Python truthiness of None / str: a non-empty str.
Truthy(x) == x.tag = "val" /\ x.val # <<>>
\* a or b, b being evaluated only when a is falsy.
PyOr(a, b) == IF IsExc(a) THEN a ELSE IF Truthy(a) THEN a ELSE b

VersionPrefix == <<"version", ":">>
HostPrefix == <<"host", ":">>
ErrorCodePrefix == <<"error.code", ":">>
PeerServicePrefix == <<"peer.service", ":">>
DbInstancePrefix == <<"db.instance", ":">>
HttpHostPrefix == <<"http.host", ":">>
NetPeerNamePrefix == <<"net.peer.name", ":">>
OperationPrefix == <<"operation", ":">>

\* t.startswith(prefix)
startswith(t, prefix) ==
    Len(t) >= Len(prefix) /\ SubSeq(t, 1, Len(prefix)) = prefix

\* t.split(":")[1]: what lies between the first ":" and the next one.
split_colon_all_1(t) ==
    LET i == CHOOSE j \in 1..Len(t) :
                 t[j] = ":" /\ \A m \in 1..(j - 1) : t[m] # ":"
        rest == SubSeq(t, i + 1, Len(t))
        ends == {j \in 1..Len(rest) : rest[j] = ":"}
    IN IF ends = {} THEN rest
       ELSE SubSeq(rest, 1, (CHOOSE j \in ends : \A m \in ends : j <= m) - 1)

\* t.split(":", 1)[1] for a t that contains ":": what follows the first ":".
split_colon_1(t) ==
    LET i == CHOOSE j \in 1..Len(t) :
                 t[j] = ":" /\ \A m \in 1..(j - 1) : t[m] # ":"
    IN SubSeq(t, i + 1, Len(t))

RECURSIVE parse_from(_, _, _)
parse_from(tag_prefix, tags, i) ==
    IF i > Len(tags) THEN NoneR
    ELSE IF tags[i].kind # "str" THEN ExcR
    ELSE IF startswith(tags[i].chars, tag_prefix)
         THEN ValR(split_colon_1(tags[i].chars))
         ELSE parse_from(tag_prefix, tags, i + 1)

parse_tag_value(tag_prefix, tags) == parse_from(tag_prefix, tags, 1)

(***************************************************************************)
(* collections.Counter                                                     *)
(***************************************************************************)
\* counter[k] += 1
Bump(counter, k) ==
    IF \E i \in 1..Len(counter) : counter[i].key = k
    THEN [i \in 1..Len(counter) |->
            IF counter[i].key = k
            THEN [counter[i] EXCEPT !.cnt = @ + 1]
            ELSE counter[i]]
    ELSE Append(counter, [key |-> k, cnt |-> 1])

RECURSIVE SumCounts(_)
SumCounts(counter) ==
    IF counter = <<>> THEN 0
    ELSE counter[Len(counter)].cnt + SumCounts(SubSeq(counter, 1, Len(counter) - 1))

\* A variant that puts an entry before the entries of equal count.
InsertDescBeforeTies(sorted, e) ==
    LET n == Cardinality({i \in 1..Len(sorted) : sorted[i].cnt > e.cnt})
    IN SubSeq(sorted, 1, n) \o <<e>> \o SubSeq(sorted, n + 1, Len(sorted))

\* Insert e into a list sorted by count descending, after the entries whose
\* count is at least e's (sorted(..., reverse=True) is stable).
InsertDesc(sorted, e) ==
    LET n == Cardinality({i \in 1..Len(sorted) : sorted[i].cnt >= e.cnt})
    IN SubSeq(sorted, 1, n) \o <<e>> \o SubSeq(sorted, n + 1, Len(sorted))

RECURSIVE SortDesc(_)
SortDesc(counter) ==
    IF counter = <<>> THEN <<>>
    ELSE InsertDesc(SortDesc(SubSeq(counter, 1, Len(counter) - 1)),
                    counter[Len(counter)])

\* counter.most_common(k)
most_common(counter, k) == SubSeq(SortDesc(counter), 1, Min(k, Len(counter)))

\* top_list(counter, k=5)
top_list(counter) ==
    LET mc == most_common(counter, TopK)
    IN [i \in 1..Len(mc) |-> [value |-> mc[i].key, count |-> mc[i].cnt]]

(***************************************************************************)
(* add_pct                                                                 *)
(***************************************************************************)
\* n / d cut off below the hundredth instead of rounded.
TruncDiv(n, d) == n \div d

\* round(n / d) to the nearest integer, ties to even: round(x, 2) on
\* x = 100.0 * count / total, in hundredths.
RoundDiv(n, d) ==
    LET q == n \div d
        r == n % d
    IN IF 2 * r < d THEN q
       ELSE IF 2 * r > d THEN q + 1
       ELSE IF q % 2 = 0 THEN q ELSE q + 1

RECURSIVE SumField(_, _)
SumField(items, f) ==
    IF items = <<>> THEN 0
    ELSE items[Len(items)][f] + SumField(SubSeq(items, 1, Len(items) - 1), f)

add_pct_items(items) ==
    LET s == SumField(items, "count")
        total == IF s = 0 THEN 1 ELSE s
    IN [i \in 1..Len(items) |->
          [value |-> items[i].value, count |-> items[i].count,
           pct |-> RoundDiv(10000 * items[i].count, total)]]

add_pct(buckets_dict) ==
    [by_version |-> add_pct_items(buckets_dict.by_version),
     by_host |-> add_pct_items(buckets_dict.by_host),
     by_error_code |-> add_pct_items(buckets_dict.by_error_code)]

(***************************************************************************)
(* Inputs                                                                  *)
(***************************************************************************)
NoTags == [kind |-> "absent", items |-> <<>>]
NullTags == [kind |-> "null", items |-> <<>>]
TagList(items) == [kind |-> "list", items |-> items]
NoName == [kind |-> "absent", chars |-> <<>>]
Name(chars) == [kind |-> "str", chars |-> chars]
Rec(tags, name) == [tags |-> tags, name |-> name]

RecA == Rec(TagList(<<Tag("version", <<"1.2">>), Tag("host", <<"a">>),
                      Tag("error.code", <<"500">>)>>), NoName)
RecB == Rec(TagList(<<Tag("version", <<"1.2">>), Tag("host", <<"b">>)>>), NoName)
RecPeerDb == Rec(TagList(<<Tag("peer.service", <<"X">>),
                           Tag("db.instance", <<"Y">>)>>), NoName)
RecEmptyPeer == Rec(TagList(<<Tag("peer.service", <<>>),
                              Tag("db.instance", <<"Y">>)>>), NoName)
RecOp == Rec(TagList(<<Tag("operation", <<"op1">>), Tag("operation", <<"op2">>)>>),
             Name(<<"n1">>))
RecEmptyOp == Rec(TagList(<<Tag("operation", <<>>), Tag("host", <<"a">>)>>),
                  Name(<<"n1">>))
RecMulti == Rec(TagList(<<Tag("version", <<"2">>), Tag("version", <<"1.2">>),
                          Tag("host", <<"c">>), Tag("host", <<"a">>),
                          Str(<<"untagged">>)>>), NoName)
RecNameOnly == Rec(NoTags, Name(<<"n1">>))
RecNull == Rec(NullTags, NoName)
RecHttp == Rec(TagList(<<Tag("net.peer.name", <<"p">>),
                         Tag("http.host", <<"h", ":", "80">>)>>), Name(<<"n2">>))
RecBadTag == Rec(TagList(<<Tag("version", <<"2">>), NonStr>>), Name(<<"n1">>))
RecLateBad == Rec(TagList(<<Tag("version", <<"2">>), Tag("host", <<"b">>),
                            Tag("error.code", <<"500">>), NonStr>>), NoName)

\* The payloads the monitoring endpoint delivers in the general runs.
Feed == {RecA, RecB, RecPeerDb, RecEmptyPeer, RecOp, RecEmptyOp, RecMulti,
         RecNameOnly, RecNull, RecHttp, RecBadTag, RecLateBad}

\* The versions of the ranking feed, in the order in which it introduces them.
RankOrder == <<"c", "a", "e", "b", "f", "d">>
RankRec(v) == Rec(TagList(<<Tag("version", <<v>>)>>), NoName)
\* Payloads with one version tag each, out of six versions.
RankFeed == {RankRec(RankOrder[i]) : i \in 1..Len(RankOrder)}

(***************************************************************************)
(* collect_buckets                                                         *)
(***************************************************************************)
\* tags = p.get("tags", []) or []
TagsOf(p) == IF p.tags.kind = "list" THEN p.tags.items ELSE <<>>
\* p.get("name")
NameOf(p) == IF p.name.kind = "str" THEN ValR(p.name.chars) ELSE NoneR

\* if v: counter[v] += 1
Count(counter, v) == IF Truthy(v) THEN Bump(counter, v.val) ELSE counter

RECURSIVE CountEveryFrom(_, _, _, _)
CountEveryFrom(counter, tag_prefix, tags, i) ==
    IF i > Len(tags) THEN counter
    ELSE IF tags[i].kind = "str" /\ startswith(tags[i].chars, tag_prefix)
              /\ split_colon_1(tags[i].chars) # <<>>
         THEN CountEveryFrom(Bump(counter, split_colon_1(tags[i].chars)),
                             tag_prefix, tags, i + 1)
         ELSE CountEveryFrom(counter, tag_prefix, tags, i + 1)

\* A variant that counts every tag of the record that has the prefix.
CountFacetEveryTag(counter, tag_prefix, tags) ==
    CountEveryFrom(counter, tag_prefix, tags, 1)

\* ver = parse_tag_value("version:", tags); if ver: by_version[ver] += 1
CountFacet(counter, tag_prefix, tags) ==
    Count(counter, parse_tag_value(tag_prefix, tags))

\* dep = (peer.service or db.instance or http.host or net.peer.name)
DepOf(tags) ==
    PyOr(PyOr(PyOr(parse_tag_value(PeerServicePrefix, tags),
                   parse_tag_value(DbInstancePrefix, tags)),
              parse_tag_value(HttpHostPrefix, tags)),
         parse_tag_value(NetPeerNamePrefix, tags))

\* op = parse_tag_value("operation:", tags) or p.get("name")
OpOf(p) == PyOr(parse_tag_value(OperationPrefix, TagsOf(p)), NameOf(p))

\* One iteration of "for p in datadog_payloads"; an exception leaves the
\* function at the statement that raised it.
collect_step(p) ==
    LET tags == TagsOf(p)
        ver == parse_tag_value(VersionPrefix, tags)
        host == parse_tag_value(HostPrefix, tags)
        errc == parse_tag_value(ErrorCodePrefix, tags)
        dep == DepOf(tags)
        op == OpOf(p)
    IN /\ pc = "loop"
       /\ seen' = Append(seen, p)
       /\ IF IsExc(ver) \/ IsExc(host) \/ IsExc(errc)
          THEN /\ pc' = "raised"
               /\ UNCHANGED <<by_version, by_host, by_error_code,
                              dependencies, operations>>
          ELSE /\ by_version' = CountFacet(by_version, VersionPrefix, tags)
               /\ by_host' = CountFacet(by_host, HostPrefix, tags)
               /\ by_error_code' = CountFacet(by_error_code, ErrorCodePrefix, tags)
               /\ IF IsExc(dep)
                  THEN /\ pc' = "raised"
                       /\ UNCHANGED <<dependencies, operations>>
                  ELSE /\ dependencies' = Count(dependencies, dep)
                       /\ IF IsExc(op)
                          THEN /\ pc' = "raised"
                               /\ UNCHANGED operations
                          ELSE /\ operations' = Count(operations, op)
                               /\ pc' = "loop"
       /\ UNCHANGED <<logs_buckets, report>>
       /\ UNCHANGED <<tsVars, slVars, gjVars, natVars>>

\* The loop body on the next payload of the general feed.
Collect == \E p \in Feed : Len(seen) < MaxRecords /\ collect_step(p)

\* The loop body on the next payload of the ranking feed: a version delivered
\* before, or the next new one (the code compares values for equality only,
\* so every payload list is a renaming of one of these).
CollectRank ==
    \E i \in 1..Len(RankOrder) :
        /\ i <= Cardinality({seen[j] : j \in 1..Len(seen)}) + 1
        /\ Len(seen) < MaxRankRecords
        /\ collect_step(RankRec(RankOrder[i]))

\* The return statement of collect_buckets, once the payloads are exhausted.
collect_return ==
    /\ pc = "loop"
    /\ pc' = "returned"
    /\ logs_buckets' = [by_version |-> top_list(by_version),
                        by_host |-> top_list(by_host),
                        by_error_code |-> top_list(by_error_code)]
    /\ UNCHANGED <<seen, by_version, by_host, by_error_code, dependencies,
                   operations, report>>
    /\ UNCHANGED <<tsVars, slVars, gjVars, natVars>>

\* add_pct applied to the buckets collect_buckets returned.
AddPct ==
    /\ pc = "returned"
    /\ pc' = "pct"
    /\ logs_buckets' = add_pct(logs_buckets)
    /\ UNCHANGED <<seen, by_version, by_host, by_error_code, dependencies,
                   operations, report>>
    /\ UNCHANGED <<tsVars, slVars, gjVars, natVars>>

(***************************************************************************)
(* build_compact_json                                                      *)
(***************************************************************************)
IndexErrorR == [tag |-> "exc", val |-> <<"IndexError">>]

\* counter.most_common(1)[0][0] without the emptiness test.
TopOfUnguarded(counter) ==
    LET mc == most_common(counter, 1)
    IN IF mc = <<>> THEN IndexErrorR ELSE ValR(mc[1].key)

\* counter.most_common(1)[0][0] if counter else None
TopOf(counter) ==
    IF counter # <<>> THEN ValR(most_common(counter, 1)[1].key) ELSE NoneR

\* metric_series: one {key, points: [[t, count]]} per by_version item.
MetricSeries(items) ==
    [i \in 1..Len(items) |-> [key |-> items[i].value, count |-> items[i].count]]

NoReport == [built |-> FALSE, series |-> <<>>,
             top_dependency |-> NoneR, top_operation |-> NoneR]

\* The rest of build_compact_json after collect_buckets returned.
BuildCompactJson ==
    /\ pc = "returned"
    /\ pc' = "built"
    /\ report' = [built |-> TRUE,
                  series |-> MetricSeries(logs_buckets.by_version),
                  top_dependency |-> TopOf(dependencies),
                  top_operation |-> TopOf(operations)]
    /\ UNCHANGED <<seen, by_version, by_host, by_error_code, dependencies,
                   operations, logs_buckets>>
    /\ UNCHANGED <<tsVars, slVars, gjVars, natVars>>

NoBuckets == [by_version |-> <<>>, by_host |-> <<>>, by_error_code |-> <<>>]
NoTs == [isNone |-> TRUE, s |-> <<>>]
NoOut == [kind |-> "pending", s |-> <<>>]

AggInit ==
    /\ seen = <<>>
    /\ by_version = <<>>
    /\ by_host = <<>>
    /\ by_error_code = <<>>
    /\ dependencies = <<>>
    /\ operations = <<>>
    /\ pc = "loop"
    /\ logs_buckets = NoBuckets
    /\ report = NoReport

TsIdle ==
    /\ ts = NoTs
    /\ ts_norm = <<>>
    /\ ts_out = NoOut
    /\ ts_pc = "idle"

\* No Slack dump, no get_json call and no request to the server is under way.
SlIdle ==
    /\ sl_listresp = "ok"
    /\ sl_scenarios = <<>>
    /\ sl_query = ""
    /\ sl_i = 0
    /\ sl_env = <<>>
    /\ sl_out = <<>>
    /\ sl_pc = "idle"
    /\ sl_result = [kind |-> "pending", entries |-> <<>>]

GjIdle ==
    /\ gj_retries = 0
    /\ gj_attempt = 0
    /\ gj_log = <<>>
    /\ gj_slept = <<>>
    /\ gj_pc = "idle"
    /\ gj_result = [kind |-> "pending", val |-> ""]

NatIdle ==
    /\ nat_req = [method |-> "GET", has_prompt |-> FALSE, runs |-> FALSE]
    /\ nat_log = <<>>
    /\ nat_pc = "idle"
    /\ nat_resp = [code |-> 0, status |-> "pending", success |-> "none",
                   output |-> NoneR]

Init == AggInit /\ TsIdle /\ SlIdle /\ GjIdle /\ NatIdle

Next == Collect \/ collect_return \/ AddPct \/ BuildCompactJson

Spec == Init /\ [][Next]_vars

NextRank == CollectRank \/ collect_return \/ AddPct \/ BuildCompactJson

SpecRank == Init /\ [][NextRank]_vars

(***************************************************************************)
(* to_utc_with_offset                                                      *)
(*                                                                         *)
(* A timestamp string is a sequence of tokens: a date ("2024-01-01"), the  *)
(* characters "T", " ", ".", "Z", "+", "-", a time of day ("10:00:00"), a  *)
(* fraction ("123456", or "x" for text that is not digits) and an offset   *)
(* ("02:00").                                                              *)
(***************************************************************************)
DateToks == <<"2023-12-31", "2024-01-01", "2024-01-02">>
TimeTable == {<<"00:00:00", 0>>, <<"01:00:00", 1>>, <<"03:00:00", 3>>,
              <<"08:00:00", 8>>, <<"10:00:00", 10>>, <<"12:00:00", 12>>,
              <<"23:00:00", 23>>}
OffsetTable == {<<"00:00", 0>>, <<"02:00", 2>>}
FracDigits == "123456"

IsDate(tok) == \E d \in 1..Len(DateToks) : DateToks[d] = tok
DayOf(tok) == CHOOSE d \in 1..Len(DateToks) : DateToks[d] = tok
IsTime(tok) == \E e \in TimeTable : e[1] = tok
HourOf(tok) == (CHOOSE e \in TimeTable : e[1] = tok)[2]
TimeTok(h) == (CHOOSE e \in TimeTable : e[2] = h)[1]
IsOffset(tok) == \E e \in OffsetTable : e[1] = tok
OffsetOf(tok) == (CHOOSE e \in OffsetTable : e[1] = tok)[2]

\* s.strip()
RECURSIVE lstrip(_)
lstrip(s) == IF s # <<>> /\ s[1] = " " THEN lstrip(Tail(s)) ELSE s
RECURSIVE rstrip(_)
rstrip(s) ==
    IF s # <<>> /\ s[Len(s)] = " " THEN rstrip(SubSeq(s, 1, Len(s) - 1)) ELSE s
strip(s) == rstrip(lstrip(s))

\* s.replace("Z", "+00:00")
RECURSIVE replace_Z(_)
replace_Z(s) ==
    IF s = <<>> THEN <<>>
    ELSE (IF s[1] = "Z" THEN <<"+", "00:00">> ELSE <<s[1]>>) \o replace_Z(Tail(s))

\* c in s
Contains(s, c) == \E i \in 1..Len(s) : s[i] = c

\* s.split(".")[0]
split_dot_0(s) ==
    IF Contains(s, ".")
    THEN SubSeq(s, 1, (CHOOSE i \in 1..Len(s) :
                          s[i] = "." /\ \A j \in 1..(i - 1) : s[j] # ".") - 1)
    ELSE s

DateTime(day, hour, micro, aware, off) ==
    [day |-> day, hour |-> hour, micro |-> micro, aware |-> aware, off |-> off]
ParseError == [ok |-> FALSE, dt |-> DateTime(0, 0, 0, FALSE, 0)]
Parsed(dt) == [ok |-> TRUE, dt |-> dt]

\* The time zone part of an ISO string: nothing, or a sign and hh:mm.
ParseZone(rest, day, hour, micro) ==
    IF rest = <<>> THEN Parsed(DateTime(day, hour, micro, FALSE, 0))
    ELSE IF Len(rest) = 2 /\ rest[1] \in {"+", "-"} /\ IsOffset(rest[2])
         THEN Parsed(DateTime(day, hour, micro, TRUE,
                              IF rest[1] = "+" THEN OffsetOf(rest[2])
                              ELSE 0 - OffsetOf(rest[2])))
         ELSE ParseError

\* A parser that knows no fractional seconds.
fromisoformat_without_fraction(s) ==
    IF Len(s) < 1 \/ ~IsDate(s[1]) THEN ParseError
    ELSE IF Len(s) = 1 THEN Parsed(DateTime(DayOf(s[1]), 0, 0, FALSE, 0))
    ELSE IF Len(s) < 3 \/ s[2] \notin {"T", " "} \/ ~IsTime(s[3]) THEN ParseError
    ELSE ParseZone(SubSeq(s, 4, Len(s)), DayOf(s[1]), HourOf(s[3]), 0)

\* datetime.fromisoformat: date [separator time [. digits] [zone]]; anything
\* else is a ValueError.
fromisoformat(s) ==
    IF Len(s) < 1 \/ ~IsDate(s[1]) THEN ParseError
    ELSE IF Len(s) = 1 THEN Parsed(DateTime(DayOf(s[1]), 0, 0, FALSE, 0))
    ELSE IF Len(s) < 3 \/ s[2] \notin {"T", " "} \/ ~IsTime(s[3]) THEN ParseError
    ELSE IF Len(s) >= 5 /\ s[4] = "."
         THEN IF s[5] = FracDigits
              THEN ParseZone(SubSeq(s, 6, Len(s)), DayOf(s[1]), HourOf(s[3]), 123456)
              ELSE ParseError
         ELSE ParseZone(SubSeq(s, 4, Len(s)), DayOf(s[1]), HourOf(s[3]), 0)

\* dt.replace(tzinfo=utc) if dt.tzinfo is None else dt.astimezone(utc)
to_utc(dt) ==
    IF ~dt.aware THEN [dt EXCEPT !.aware = TRUE, !.off = 0]
    ELSE LET h == dt.hour - dt.off
         IN IF h < 0 THEN DateTime(dt.day - 1, h + 24, dt.micro, TRUE, 0)
            ELSE IF h >= 24 THEN DateTime(dt.day + 1, h - 24, dt.micro, TRUE, 0)
            ELSE DateTime(dt.day, h, dt.micro, TRUE, 0)

\* dt.isoformat() of an aware datetime in UTC
isoformat(dt) ==
    <<DateToks[dt.day], "T", TimeTok(dt.hour)>>
       \o (IF dt.micro # 0 THEN <<".", FracDigits>> ELSE <<>>)
       \o (IF dt.aware THEN <<"+", "00:00">> ELSE <<>>)

NoneOut == [kind |-> "none", s |-> <<>>]
StrOut(s) == [kind |-> "str", s |-> s]
ValueErrorOut == [kind |-> "ValueError", s |-> <<>>]

\* The string the except branch parses.
fallback_norm(n) ==
    IF ~Contains(n, "+") /\ Contains(n, "T")
    THEN split_dot_0(n) \o <<"+", "00:00">>
    ELSE n

\* The call up to the first parse; when it succeeds, up to the return.
to_utc_with_offset ==
    /\ ts_pc = "call"
    /\ IF ts.isNone \/ ts.s = <<>>
       THEN /\ ts_out' = NoneOut
            /\ ts_pc' = "done"
            /\ UNCHANGED ts_norm
       ELSE LET n == replace_Z(strip(ts.s))
                r == fromisoformat(n)
            IN /\ ts_norm' = n
               /\ IF r.ok
                  THEN /\ ts_out' = StrOut(isoformat(to_utc(r.dt)))
                       /\ ts_pc' = "done"
                  ELSE /\ ts_pc' = "except"
                       /\ UNCHANGED ts_out
    /\ UNCHANGED ts
    /\ UNCHANGED <<aggVars, slVars, gjVars, natVars>>

\* The except ValueError branch; its own ValueError leaves the function.
to_utc_with_offset_except ==
    /\ ts_pc = "except"
    /\ LET n == fallback_norm(ts_norm)
           r == fromisoformat(n)
       IN /\ ts_norm' = n
          /\ IF r.ok
             THEN /\ ts_out' = StrOut(isoformat(to_utc(r.dt)))
                  /\ ts_pc' = "done"
             ELSE /\ ts_out' = ValueErrorOut
                  /\ ts_pc' = "raised"
    /\ UNCHANGED ts
    /\ UNCHANGED <<aggVars, slVars, gjVars, natVars>>

TsLeads == {<<>>, <<" ">>}
TsBodies == {<<"T", "10:00:00">>, <<" ", "10:00:00">>, <<"T", "01:00:00">>}
TsFracs == {<<>>, <<".", "123456">>, <<".", "x">>}
TsTails == {<<>>, <<"Z">>, <<"+", "02:00">>, <<"-", "02:00">>, <<"Z", "Z">>}
TsStrings ==
    {l \o <<"2024-01-01">> \o b \o f \o t \o r :
        l \in TsLeads, b \in TsBodies, f \in TsFracs, t \in TsTails, r \in TsLeads}
      \cup {<<>>, <<" ">>, <<"2024-01-01">>, <<"2024-01-01", "T">>}
TsValue(s) == [isNone |-> FALSE, s |-> s]
\* The arguments of to_utc_with_offset: None and the strings above.
TsInputs == {NoTs} \cup {TsValue(s) : s \in TsStrings}

InitTs ==
    /\ AggInit
    /\ SlIdle
    /\ GjIdle
    /\ NatIdle
    /\ ts \in TsInputs
    /\ ts_norm = <<>>
    /\ ts_out = NoOut
    /\ ts_pc = "call"

NextTs == to_utc_with_offset \/ to_utc_with_offset_except

SpecTs == InitTs /\ [][NextTs]_vars

(***************************************************************************)
(* Slack dump: main of Slack/slack_convo_viewer.py and _get_conversations  *)
(* of the slack_convo_viewer tool                                          *)
(***************************************************************************)
\* Longest scenario list the API returns.
MaxScenarios == 2

\* to_utc_with_offset as a function of its argument.
to_utc_result(t) ==
    IF t.isNone \/ t.s = <<>> THEN NoneOut
    ELSE LET n == replace_Z(strip(t.s))
             r == fromisoformat(n)
             r2 == fromisoformat(fallback_norm(n))
         IN IF r.ok THEN StrOut(isoformat(to_utc(r.dt)))
            ELSE IF r2.ok THEN StrOut(isoformat(to_utc(r2.dt)))
            ELSE ValueErrorOut

ScenarioIds == {"s1", "s2"}
ScenarioLists == UNION {[1..n -> ScenarioIds] : n \in 0..MaxScenarios}
\* GET /hackathon/scenarios: a list, an HTTP status error, another request
\* error, or JSON that is not a list.
ListResponses == {"ok", "http", "conn", "notlist"}

StampGood == TsValue(<<"2024-01-01", "T", "10:00:00", "Z">>)
StampBad == TsValue(<<"2024-01-01", "T", "10:00:00", ".", "x", "Z">>)
\* created_at and updated_at of a scenario object (NoTs: the key is missing).
StampPairs == {<<StampGood, NoTs>>, <<StampGood, StampBad>>, <<StampBad, StampGood>>}

Env(meta, created, updated, slack) ==
    [meta |-> meta, created |-> created, updated |-> updated, slack |-> slack]
\* What the API answers for one scenario: the scenario object ("ok"), an
\* HTTP status error or another request error; and for its Slack
\* conversation messages, no messages, or one of the two errors.
EnvSet ==
    {Env("ok", sp[1], sp[2], sl) :
        sp \in StampPairs, sl \in {"msgs", "empty", "http", "conn"}}
    \cup {Env(m, NoTs, NoTs, sl) :
        m \in {"http", "conn"}, sl \in {"msgs", "empty", "http", "conn"}}

StampRaises(env) ==
    env.meta = "ok" /\ (to_utc_result(env.created) = ValueErrorOut
                         \/ to_utc_result(env.updated) = ValueErrorOut)

Entry(sid, kind, created, updated, slack) ==
    [sid |-> sid, kind |-> kind, created |-> created, updated |-> updated,
     slack |-> slack]

SlResult(kind, entries) == [kind |-> kind, entries |-> entries]

\* A variant without the inner try blocks: every failed fetch is fatal.
main_fatal_without_inner_try(env) ==
    env.meta # "ok" \/ StampRaises(env) \/ env.slack \in {"http", "conn"}

\* The exceptions of one iteration that only the outer handlers of main
\* catch: whatever is not a requests.HTTPError.
main_fatal(env) ==
    env.meta = "conn" \/ StampRaises(env) \/ env.slack = "conn"

\* The dict appended to all_data.
main_entry(sid, env) ==
    Entry(sid, "info",
          IF env.meta = "http" THEN NoneOut ELSE to_utc_result(env.created),
          IF env.meta = "http" THEN NoneOut ELSE to_utc_result(env.updated),
          IF env.slack = "msgs" THEN "msgs" ELSE "none")

\* scenarios = list_scenarios(base_url) and the test that follows.
main_list ==
    /\ sl_pc = "main_list"
    /\ IF sl_listresp = "http"
       THEN sl_pc' = "exit" /\ sl_result' = SlResult("exit2", <<>>)
       ELSE IF sl_listresp \in {"conn", "notlist"} \/ sl_scenarios = <<>>
       THEN sl_pc' = "exit" /\ sl_result' = SlResult("exit1", <<>>)
       ELSE sl_pc' = "main_loop" /\ UNCHANGED sl_result
    /\ UNCHANGED <<sl_listresp, sl_scenarios, sl_query, sl_i, sl_env, sl_out>>
    /\ UNCHANGED <<aggVars, tsVars, gjVars, natVars>>

\* One iteration of "for sc in scenarios" of main.
main_scenario ==
    \E env \in EnvSet :
        /\ sl_pc = "main_loop"
        /\ sl_i < Len(sl_scenarios)
        /\ sl_i' = sl_i + 1
        /\ sl_env' = Append(sl_env, [idx |-> sl_i + 1, env |-> env])
        /\ IF main_fatal(env)
           THEN /\ sl_pc' = "exit"
                /\ sl_result' = SlResult("exit1", <<>>)
                /\ UNCHANGED sl_out
           ELSE /\ sl_out' = Append(sl_out, main_entry(sl_scenarios[sl_i + 1], env))
                /\ UNCHANGED <<sl_pc, sl_result>>
        /\ UNCHANGED <<sl_listresp, sl_scenarios, sl_query>>
        /\ UNCHANGED <<aggVars, tsVars, gjVars, natVars>>

\* payload = json.dumps(all_data) and its output, after the loop.
main_write ==
    /\ sl_pc = "main_loop"
    /\ sl_i = Len(sl_scenarios)
    /\ sl_pc' = "written"
    /\ sl_result' = SlResult("written", sl_out)
    /\ UNCHANGED <<sl_listresp, sl_scenarios, sl_query, sl_i, sl_env, sl_out>>
    /\ UNCHANGED <<aggVars, tsVars, gjVars, natVars>>

SlStart(first) ==
    /\ sl_listresp \in ListResponses
    /\ sl_scenarios \in (IF sl_listresp = "ok" THEN ScenarioLists ELSE {<<>>})
    /\ sl_i = 0
    /\ sl_env = <<>>
    /\ sl_out = <<>>
    /\ sl_pc = first
    /\ sl_result = SlResult("pending", <<>>)

InitMain ==
    /\ AggInit /\ TsIdle /\ GjIdle /\ NatIdle
    /\ sl_query = ""
    /\ SlStart("main_list")

NextMain == main_list \/ main_scenario \/ main_write

SpecMain == InitMain /\ [][NextMain]_vars

\* The scenario_id arguments of the tool: none, blank, listed, not listed.
Queries == {"", " ", "s1", "s9"}
\* scenario_id and scenario_id.strip()
NonBlank(q) == q \notin {"", " "}

\* A variant that never leaves the loop early.
tool_never_breaks(q, sid) == FALSE

\* if scenario_id and sid == scenario_id: break
tool_breaks(q, sid) == q # "" /\ sid = q

\* if scenario_id and scenario_id.strip() and sid != scenario_id: continue
tool_skips(q, sid) == NonBlank(q) /\ sid # q

\* Any exception inside the inner try of the tool.
tool_fails(env) ==
    env.meta # "ok" \/ StampRaises(env) \/ env.slack \in {"http", "conn"}

\* The string appended to result: the scenario text or the error text.
tool_entry(sid, env) ==
    IF tool_fails(env) THEN Entry(sid, "error", NoneOut, NoneOut, "none")
    ELSE Entry(sid, "info", to_utc_result(env.created),
               to_utc_result(env.updated),
               IF env.slack = "msgs" THEN "msgs" ELSE "none")

\* scenarios = list_scenarios(...) and the test that follows; a failure is
\* caught by the outer handler and returned as text.
tool_list ==
    /\ sl_pc = "tool_list"
    /\ IF sl_listresp # "ok"
       THEN sl_pc' = "returned" /\ sl_result' = SlResult("error", <<>>)
       ELSE IF sl_scenarios = <<>>
       THEN sl_pc' = "returned" /\ sl_result' = SlResult("no_scenarios", <<>>)
       ELSE sl_pc' = "tool_loop" /\ UNCHANGED sl_result
    /\ UNCHANGED <<sl_listresp, sl_scenarios, sl_query, sl_i, sl_env, sl_out>>
    /\ UNCHANGED <<aggVars, tsVars, gjVars, natVars>>

\* An iteration that takes the continue.
tool_skip ==
    /\ sl_pc = "tool_loop"
    /\ sl_i < Len(sl_scenarios)
    /\ tool_skips(sl_query, sl_scenarios[sl_i + 1])
    /\ sl_i' = sl_i + 1
    /\ UNCHANGED <<sl_listresp, sl_scenarios, sl_query, sl_env, sl_out, sl_pc,
                   sl_result>>
    /\ UNCHANGED <<aggVars, tsVars, gjVars, natVars>>

\* An iteration that fetches the scenario.
tool_scenario ==
    \E env \in EnvSet :
        /\ sl_pc = "tool_loop"
        /\ sl_i < Len(sl_scenarios)
        /\ ~tool_skips(sl_query, sl_scenarios[sl_i + 1])
        /\ sl_i' = sl_i + 1
        /\ sl_env' = Append(sl_env, [idx |-> sl_i + 1, env |-> env])
        /\ sl_out' = Append(sl_out, tool_entry(sl_scenarios[sl_i + 1], env))
        /\ sl_pc' = IF tool_breaks(sl_query, sl_scenarios[sl_i + 1])
                    THEN "tool_done" ELSE "tool_loop"
        /\ UNCHANGED <<sl_listresp, sl_scenarios, sl_query, sl_result>>
        /\ UNCHANGED <<aggVars, tsVars, gjVars, natVars>>

\* What follows the loop.
tool_return ==
    /\ \/ sl_pc = "tool_loop" /\ sl_i = Len(sl_scenarios)
       \/ sl_pc = "tool_done"
    /\ sl_pc' = "returned"
    /\ sl_result' = IF sl_out = <<>>
                    THEN IF NonBlank(sl_query) THEN SlResult("not_found_id", <<>>)
                         ELSE SlResult("no_scenarios", <<>>)
                    ELSE SlResult("joined", sl_out)
    /\ UNCHANGED <<sl_listresp, sl_scenarios, sl_query, sl_i, sl_env, sl_out>>
    /\ UNCHANGED <<aggVars, tsVars, gjVars, natVars>>

InitTool ==
    /\ AggInit /\ TsIdle /\ GjIdle /\ NatIdle
    /\ sl_query \in Queries
    /\ SlStart("tool_list")

NextTool == tool_list \/ tool_skip \/ tool_scenario \/ tool_return

SpecTool == InitTool /\ [][NextTool]_vars

(***************************************************************************)
(* get_json of fetchallscenerio.py                                         *)
(***************************************************************************)
\* Largest value of the retries argument.
MaxRetries == 4
\* backoff = 0.8 seconds, counted in tenths of a second.
Backoff == 8

\* What one GET attempt does: the body parses as JSON, or session.get /
\* raise_for_status raises a requests.RequestException.
Outcome(ok, val) == [ok |-> ok, val |-> val]
Outcomes ==
    {Outcome(TRUE, j) : j \in {"j1", "j2"}}
    \cup {Outcome(FALSE, e) : e \in {"HTTPError", "Timeout", "ConnectionError"}}

GjResult(kind, val) == [kind |-> kind, val |-> val]

\* A variant whose test is off by one.
IsLastOffByOne(attempt, retries) == attempt = retries + 1

\* if attempt == retries
IsLast(attempt, retries) == attempt = retries

\* One iteration of "for attempt in range(1, retries + 1)".
get_json_attempt ==
    \E o \in Outcomes :
        /\ gj_pc = "loop"
        /\ gj_attempt < gj_retries
        /\ gj_attempt' = gj_attempt + 1
        /\ gj_log' = Append(gj_log, o)
        /\ IF o.ok
           THEN /\ gj_pc' = "returned"
                /\ gj_result' = GjResult("json", o.val)
                /\ UNCHANGED gj_slept
           ELSE IF IsLast(gj_attempt + 1, gj_retries)
           THEN /\ gj_pc' = "raised"
                /\ gj_result' = GjResult("exc", o.val)
                /\ UNCHANGED gj_slept
           ELSE /\ gj_slept' = Append(gj_slept, Backoff * (gj_attempt + 1))
                /\ UNCHANGED <<gj_pc, gj_result>>
        /\ UNCHANGED gj_retries
        /\ UNCHANGED <<aggVars, tsVars, slVars, natVars>>

\* The end of the for loop: the function falls off its end and returns None.
get_json_end ==
    /\ gj_pc = "loop"
    /\ gj_attempt >= gj_retries
    /\ gj_pc' = "returned"
    /\ gj_result' = GjResult("none", "")
    /\ UNCHANGED <<gj_retries, gj_attempt, gj_log, gj_slept>>
    /\ UNCHANGED <<aggVars, tsVars, slVars, natVars>>

InitGetJson ==
    /\ AggInit /\ TsIdle /\ SlIdle /\ NatIdle
    /\ gj_retries \in 0..MaxRetries
    /\ gj_attempt = 0
    /\ gj_log = <<>>
    /\ gj_slept = <<>>
    /\ gj_pc = "loop"
    /\ gj_result = GjResult("pending", "")

NextGetJson == get_json_attempt \/ get_json_end

SpecGetJson == InitGetJson /\ [][NextGetJson]_vars

(***************************************************************************)
(* run_nat.py: clean_output, run_nat and the request handler               *)
(***************************************************************************)
\* Longest captured log, in segments.
MaxLog == 3

\* The captured log text is a sequence of tokens: the literal
\* "Workflow Result:", white space, the two brackets, "Calling tools:" and
\* words without any of them.
WR == "Workflow Result:"
SP == " "
LB == "["
RB == "]"
CT == "Calling tools:"

\* Pieces the agent runner writes to stderr.
Segments ==
    { <<WR, LB, "r1", RB>>,
      <<WR, SP, LB, "r2", RB>>,
      <<WR, SP, "r1">>,
      <<WR, LB, "r1", SP>>,
      <<LB, "r2", RB>>,
      <<RB>>,
      <<CT, SP, "t1">> }

RECURSIVE Concat(_)
Concat(segs) == IF segs = <<>> THEN <<>> ELSE Head(segs) \o Concat(Tail(segs))

Logs == {Concat(segs) : segs \in UNION {[1..n -> Segments] : n \in 0..MaxLog}}

\* \s* from position j: the first position that is not white space.
RECURSIVE SkipSpace(_, _)
SkipSpace(log, j) ==
    IF j <= Len(log) /\ log[j] = SP THEN SkipSpace(log, j + 1) ELSE j

\* (.*?)\] from position k: the position of the first "]", or 0.
RECURSIVE FirstClose(_, _)
FirstClose(log, k) ==
    IF k > Len(log) THEN 0
    ELSE IF log[k] = RB THEN k
    ELSE FirstClose(log, k + 1)

\* The match of r"Workflow Result:\s*\[(.*?)\]" that starts at position i.
MatchAt(log, i) ==
    LET j == SkipSpace(log, i + 1)
        k == IF j <= Len(log) /\ log[j] = LB THEN FirstClose(log, j + 1) ELSE 0
    IN IF log[i] = WR /\ k > 0
       THEN [ok |-> TRUE, group |-> SubSeq(log, j + 1, k - 1), end |-> k]
       ELSE [ok |-> FALSE, group |-> <<>>, end |-> 0]

\* re.findall(..., log_text, re.DOTALL): the groups of the matches found
\* from left to right, each search starting where the last match ended.
RECURSIVE findall(_, _)
findall(log, i) ==
    IF i > Len(log) THEN <<>>
    ELSE LET m == MatchAt(log, i)
         IN IF m.ok THEN <<m.group>> \o findall(log, m.end + 1)
            ELSE findall(log, i + 1)

\* A variant that takes the first match.
final_result_first(workflow_results) ==
    IF workflow_results # <<>> THEN ValR(workflow_results[1]) ELSE NoneR

\* final_result = workflow_results[-1] if workflow_results else None
final_result(workflow_results) ==
    IF workflow_results # <<>> THEN ValR(workflow_results[Len(workflow_results)])
    ELSE NoneR

\* clean_output: the tool names only feed the local string; string + "\n" +
\* final_result raises TypeError when final_result is None.
clean_output(log_text) ==
    LET fr == final_result(findall(log_text, 1))
    IN IF fr.tag = "none" THEN ExcR ELSE fr

\* run_nat: subprocess.run may raise (runs = FALSE); every exception of the
\* try block gives success = False.
run_nat(runs, log_text) ==
    IF ~runs \/ IsExc(clean_output(log_text))
    THEN [success |-> FALSE, stdout |-> NoneR]
    ELSE [success |-> TRUE, stdout |-> clean_output(log_text)]

NatResp(code, status, success, output) ==
    [code |-> code, status |-> status, success |-> success, output |-> output]

\* The route handler.
handle_requests ==
    /\ nat_pc = "request"
    /\ nat_pc' = "done"
    /\ nat_resp' =
         IF nat_req.method = "OPTIONS" THEN NatResp(200, "empty", "none", NoneR)
         ELSE IF nat_req.method = "GET" THEN NatResp(200, "text", "none", NoneR)
         ELSE IF ~nat_req.has_prompt THEN NatResp(400, "no_prompt", "none", NoneR)
         ELSE LET result == run_nat(nat_req.runs, nat_log)
              IN IF result.success
                 THEN NatResp(200, "success", "true", result.stdout)
                 ELSE NatResp(500, "error", "false", NoneR)
    /\ UNCHANGED <<nat_req, nat_log>>
    /\ UNCHANGED <<aggVars, tsVars, slVars, gjVars>>

Requests ==
    [method : {"GET", "POST", "OPTIONS"}, has_prompt : BOOLEAN, runs : BOOLEAN]
RunsNat(req) == req.method = "POST" /\ req.has_prompt /\ req.runs

InitNat ==
    /\ AggInit /\ TsIdle /\ SlIdle /\ GjIdle
    /\ nat_req \in Requests
    /\ nat_log \in (IF RunsNat(nat_req) THEN Logs ELSE {<<>>})
    /\ nat_pc = "request"
    /\ nat_resp = NatResp(0, "pending", "none", NoneR)

NextNat == handle_requests

SpecNat == InitNat /\ [][NextNat]_vars

(***************************************************************************)
(* Properties of the aggregator                                            *)
(***************************************************************************)
BucketNames == {"by_version", "by_host", "by_error_code"}
Returned == pc \in {"returned", "pct", "built"}

\* The value a payload contributes to a tag facet, as observed in the input.
Observed(tag_prefix, i) == parse_tag_value(tag_prefix, TagsOf(seen[i]))
ObservedValues(tag_prefix) ==
    {Observed(tag_prefix, i).val : i \in {j \in 1..Len(seen) : Truthy(Observed(tag_prefix, j))}}
Occurrences(tag_prefix, v) ==
    Cardinality({i \in 1..Len(seen) : Observed(tag_prefix, i) = ValR(v)})
FirstSeen(tag_prefix, v) ==
    CHOOSE i \in 1..Len(seen) :
        /\ Observed(tag_prefix, i) = ValR(v)
        /\ \A j \in 1..(i - 1) : Observed(tag_prefix, j) # ValR(v)

C1Expected ==
    [by_version |-> <<[value |-> <<"1.2">>, count |-> 2, pct |-> 10000]>>,
     by_host |-> <<[value |-> <<"a">>, count |-> 1, pct |-> 5000],
                   [value |-> <<"b">>, count |-> 1, pct |-> 5000]>>,
     by_error_code |-> <<[value |-> <<"500">>, count |-> 1, pct |-> 10000]>>]

\* C1: what collect_buckets returns has, in by_version, by_host and
\* by_error_code, only entries with the three fields value, count and pct,
\* and for the payloads [version:1.2, host:a, error.code:500],
\* [version:1.2, host:b] it is the expected ranking with percentages.
C1_ReturnsValueCountPct ==
    pc = "returned" =>
        /\ \A b \in BucketNames :
             \A i \in 1..Len(logs_buckets[b]) :
                DOMAIN logs_buckets[b][i] = {"value", "count", "pct"}
        /\ seen = <<RecA, RecB>> => logs_buckets = C1Expected

FacetTotals ==
    <<SumCounts(by_version), SumCounts(by_host), SumCounts(by_error_code),
      SumCounts(dependencies), SumCounts(operations)>>

\* C2: a step of the loop raises the total of each of the five facet
\* counters by at most 1, and after n payloads each total is at most n.
C2_AtMostOneIncrementPerRecord ==
    /\ [][\A f \in 1..5 : /\ FacetTotals'[f] >= FacetTotals[f]
                          /\ FacetTotals'[f] <= FacetTotals[f] + 1]_vars
    /\ [](\A f \in 1..5 : FacetTotals[f] <= Len(seen))

\* A payload with two version: tags and two host: tags was counted once.
C2_Witness ==
    /\ pc = "loop"
    /\ seen = <<RecMulti, RecMulti>>
    /\ SumCounts(by_version) = 2
    /\ SumCounts(by_host) = 2

Ranked(bucket, tag_prefix) ==
    /\ Len(bucket) = Min(TopK, Cardinality(ObservedValues(tag_prefix)))
    /\ \A i \in 1..Len(bucket) :
          /\ bucket[i].value \in ObservedValues(tag_prefix)
          /\ bucket[i].count = Occurrences(tag_prefix, bucket[i].value)
    /\ \A i, j \in 1..Len(bucket) :
          i < j =>
             \/ bucket[i].count > bucket[j].count
             \/ /\ bucket[i].count = bucket[j].count
                /\ FirstSeen(tag_prefix, bucket[i].value)
                      < FirstSeen(tag_prefix, bucket[j].value)
    /\ \A v \in ObservedValues(tag_prefix) :
          (\A i \in 1..Len(bucket) : bucket[i].value # v) =>
             \A i \in 1..Len(bucket) : Occurrences(tag_prefix, v) <= bucket[i].count

\* C3: each returned bucket list is ordered by count descending, equal
\* counts in the order the values were first observed in the input, has
\* min(5, distinct values) entries, and these are the highest-count values.
C3_RankedByCountThenFirstSeen ==
    Returned =>
        /\ Ranked(logs_buckets.by_version, VersionPrefix)
        /\ Ranked(logs_buckets.by_host, HostPrefix)
        /\ Ranked(logs_buckets.by_error_code, ErrorCodePrefix)

\* Six versions were observed, the list was cut to five, it holds a count
\* above 1 whose value was not observed first, and a tie.
C3_Witness ==
    /\ pc = "returned"
    /\ Len(by_version) = 6
    /\ Len(logs_buckets.by_version) = 5
    /\ logs_buckets.by_version[1].count = 2
    /\ FirstSeen(VersionPrefix, logs_buckets.by_version[1].value) > 1
    /\ logs_buckets.by_version[2].count = logs_buckets.by_version[3].count

PctSum(items) == SumField(items, "pct")

PctSumNear100(items) ==
    IF items = <<>> THEN PctSum(items) = 0
    ELSE PctSum(items) >= 9998 /\ PctSum(items) <= 10002

FirstMatchingDep(tags) ==
    LET peer == parse_tag_value(PeerServicePrefix, tags)
        db == parse_tag_value(DbInstancePrefix, tags)
        http == parse_tag_value(HttpHostPrefix, tags)
        net == parse_tag_value(NetPeerNamePrefix, tags)
    IN IF peer # NoneR THEN peer
       ELSE IF db # NoneR THEN db
       ELSE IF http # NoneR THEN http
       ELSE net

\* C5: a payload contributes to the dependency counter only the value of the
\* first of peer.service:, db.instance:, http.host:, net.peer.name: that
\* matches one of its tags, also when that value is empty.
C5_FirstMatchingPrefixWins ==
    [][(pc = "loop" /\ pc' = "loop" /\ Len(seen') = Len(seen) + 1) =>
          dependencies' = Count(dependencies,
                                FirstMatchingDep(TagsOf(seen'[Len(seen')])))]_vars

\* C6: a payload with an operation: tag contributes to the operation counter
\* at most the value of its first operation: tag, a payload without one
\* contributes its name, and a payload with neither contributes nothing.
C6_OperationTagBeforeName ==
    [][(pc = "loop" /\ pc' = "loop" /\ Len(seen') = Len(seen) + 1) =>
          LET p == seen'[Len(seen')]
              optag == parse_tag_value(OperationPrefix, TagsOf(p))
          IN operations' = Count(operations,
                                 IF optag # NoneR THEN optag ELSE NameOf(p))]_vars

\* C7: on no payloads collect_buckets returns three empty lists and two
\* empty counters, and build_compact_json reports top_dependency = null,
\* top_operation = null and an empty metric series.
C7_EmptyInput ==
    /\ (Returned /\ seen = <<>>) =>
          /\ logs_buckets = NoBuckets
          /\ dependencies = <<>>
          /\ operations = <<>>
    /\ (pc = "built" /\ seen = <<>>) =>
          /\ report.top_dependency = NoneR
          /\ report.top_operation = NoneR
          /\ report.series = <<>>

C7_Witness == pc = "built" /\ seen = <<>> /\ report.built

\* C8: collect_buckets raises for no sequence of payloads.
C8_NeverRaises == pc # "raised"

\* k is what remains of the first tag of some processed payload that starts
\* with tag_prefix, once tag_prefix is taken off.
KeyFromTag(k, tag_prefix) ==
    \E i \in 1..Len(seen) :
       LET tags == TagsOf(seen[i])
       IN \E j \in 1..Len(tags) :
             /\ tags[j].kind = "str"
             /\ startswith(tags[j].chars, tag_prefix)
             /\ \A m \in 1..(j - 1) :
                   ~(tags[m].kind = "str" /\ startswith(tags[m].chars, tag_prefix))
             /\ k = SubSeq(tags[j].chars, Len(tag_prefix) + 1, Len(tags[j].chars))

\* k is the name field of some processed payload.
KeyFromName(k) == \E i \in 1..Len(seen) : seen[i].name = Name(k)

KeysFromTags(counter, prefixes) ==
    \A e \in 1..Len(counter) :
       /\ counter[e].key # <<>>
       /\ \E tag_prefix \in prefixes : KeyFromTag(counter[e].key, tag_prefix)

DependencyPrefixes ==
    {PeerServicePrefix, DbInstancePrefix, HttpHostPrefix, NetPeerNamePrefix}

\* C12 as stated: every key of each of the five facet counters is a
\* non-empty string, the first tag of a processed payload that starts with
\* the facet's prefix, without the prefix.
C12_KeysAreStrippedTags ==
    /\ KeysFromTags(by_version, {VersionPrefix})
    /\ KeysFromTags(by_host, {HostPrefix})
    /\ KeysFromTags(by_error_code, {ErrorCodePrefix})
    /\ KeysFromTags(dependencies, DependencyPrefixes)
    /\ KeysFromTags(operations, {OperationPrefix})

\* C12 (amended): every key of the version, host, error_code and dependency
\* counters is a non-empty string, the first tag of a processed payload that
\* starts with one of the facet's prefixes, without the prefix; a key of the
\* operation counter is such a value of an operation: tag or the non-empty
\* name field of a processed payload.
C12_KeysAreStrippedTagsOrName ==
    /\ KeysFromTags(by_version, {VersionPrefix})
    /\ KeysFromTags(by_host, {HostPrefix})
    /\ KeysFromTags(by_error_code, {ErrorCodePrefix})
    /\ KeysFromTags(dependencies, DependencyPrefixes)
    /\ \A e \in 1..Len(operations) :
          /\ operations[e].key # <<>>
          /\ \/ KeyFromTag(operations[e].key, OperationPrefix)
             \/ KeyFromName(operations[e].key)

\* A dependency with a colon in its value, an operation taken from a tag and
\* one taken from a name have been counted.
C12_Witness ==
    /\ pc = "loop"
    /\ \E e \in 1..Len(dependencies) : dependencies[e].key = <<"h", ":", "80">>
    /\ \E e \in 1..Len(operations) : operations[e].key = <<"op1">>
    /\ \E e \in 1..Len(operations) : operations[e].key = <<"n2">>

FacetTotal(counter) == IF SumCounts(counter) = 0 THEN 1 ELSE SumCounts(counter)

PctOfFacet(items, counter) ==
    /\ \A i \in 1..Len(items) :
          items[i].pct = RoundDiv(10000 * items[i].count, FacetTotal(counter))
    /\ Len(counter) > TopK => PctSum(items) < 10000

\* C13: the pct of a bucket entry is its count over the sum of all counts of
\* the facet (at least 1), so that the pct of a bucket cut to the top 5 of
\* more than 5 distinct values sum to less than 100.
C13_PctAgainstFacetTotal ==
    pc = "pct" =>
        /\ PctOfFacet(logs_buckets.by_version, by_version)
        /\ PctOfFacet(logs_buckets.by_host, by_host)
        /\ PctOfFacet(logs_buckets.by_error_code, by_error_code)

(***************************************************************************)
(* Properties of the timestamp normalizer                                  *)
(***************************************************************************)
TsReturned == ts_pc \in {"done", "raised"}
TsZulu == TsValue(<<"2024-01-01", "T", "10:00:00", "Z">>)
TsNaiveFraction == TsValue(<<"2024-01-01", "T", "10:00:00", ".", "123456">>)
TsUtcNoFraction == StrOut(<<"2024-01-01", "T", "10:00:00", "+", "00:00">>)
TsUtcFraction ==
    StrOut(<<"2024-01-01", "T", "10:00:00", ".", "123456", "+", "00:00">>)

\* C9 as stated: "2024-01-01T10:00:00Z" and the naive fractional
\* "2024-01-01T10:00:00.123456" both give "2024-01-01T10:00:00+00:00", and
\* None and "" give None.
C9_FractionDropped ==
    TsReturned =>
        /\ ts = TsZulu => ts_out = TsUtcNoFraction
        /\ ts = TsNaiveFraction => ts_out = TsUtcNoFraction
        /\ (ts = NoTs \/ ts = TsValue(<<>>)) => ts_out = NoneOut

\* C9 (amended): "2024-01-01T10:00:00Z" gives "2024-01-01T10:00:00+00:00",
\* the naive fractional "2024-01-01T10:00:00.123456" gives
\* "2024-01-01T10:00:00.123456+00:00" (the first parse succeeds, the fraction
\* is kept and UTC assumed), and None and "" give None.
C9_FractionKept ==
    TsReturned =>
        /\ ts = TsZulu => ts_out = TsUtcNoFraction
        /\ ts = TsNaiveFraction => ts_out = TsUtcFraction
        /\ (ts = NoTs \/ ts = TsValue(<<>>)) => ts_out = NoneOut

C9_Witness == ts = TsNaiveFraction /\ ts_pc = "done" /\ ts_out = TsUtcFraction

\* C10: for a non-empty string whose first parse fails, the result is the
\* normalized parse of the string cut at its first "." with "+00:00"
\* appended when that parses, and a ValueError only when it does not.
C10_RetryOnTruncatedString ==
    (TsReturned /\ ~ts.isNone /\ ts.s # <<>>
        /\ ~fromisoformat(replace_Z(strip(ts.s))).ok) =>
        LET r == fromisoformat(split_dot_0(replace_Z(strip(ts.s))) \o <<"+", "00:00">>)
        IN IF r.ok THEN ts_out = StrOut(isoformat(to_utc(r.dt)))
           ELSE ts_out = ValueErrorOut

(***************************************************************************)
(* Properties of the Slack dump                                            *)
(***************************************************************************)
\* C11: when to_utc_with_offset raises on a scenario's created_at or
\* updated_at, main catches the failure, records a null timestamp for that
\* scenario and goes on: the process does not exit and the scenario has its
\* entry, with null in place of the timestamp that could not be parsed.
C11_MalformedTimestampIsolated ==
    \A k \in 1..Len(sl_env) :
        StampRaises(sl_env[k].env) =>
            /\ sl_pc # "exit"
            /\ Len(sl_out) >= k
            /\ to_utc_result(sl_env[k].env.created) = ValueErrorOut
                   => sl_out[k].created = NoneOut
            /\ to_utc_result(sl_env[k].env.updated) = ValueErrorOut
                   => sl_out[k].updated = NoneOut

\* The only failures of a scenario are HTTP status errors.
HttpOnly(env) ==
    /\ env.meta = "http" \/ env.slack = "http"
    /\ env.meta # "conn" /\ env.slack # "conn"
    /\ to_utc_result(env.created) # ValueErrorOut
    /\ to_utc_result(env.updated) # ValueErrorOut

\* C16: in main, a scenario whose metadata or Slack fetch fails with an HTTP
\* status error still yields exactly one entry (null timestamps,
\* respectively an empty conversation) and the loop goes on; what is written
\* has one entry per listed scenario, in list order, and is written only
\* after every scenario was processed.
C16_OneEntryPerScenario ==
    /\ \A k \in 1..Len(sl_env) :
           HttpOnly(sl_env[k].env) =>
               /\ Len(sl_out) >= k
               /\ sl_out[k].sid = sl_scenarios[k]
               /\ sl_env[k].env.meta = "http" =>
                      sl_out[k].created = NoneOut /\ sl_out[k].updated = NoneOut
               /\ sl_env[k].env.slack = "http" => sl_out[k].slack = "none"
               /\ (sl_pc = "exit" => k < Len(sl_env))
    /\ sl_pc = "written" =>
           /\ sl_scenarios # <<>>
           /\ sl_i = Len(sl_scenarios)
           /\ Len(sl_env) = Len(sl_scenarios)
           /\ Len(sl_result.entries) = Len(sl_scenarios)
           /\ \A k \in 1..Len(sl_scenarios) :
                  sl_result.entries[k].sid = sl_scenarios[k]
    /\ sl_result.kind = "written" => sl_pc = "written"

C16_Witness ==
    /\ sl_pc = "written"
    /\ sl_scenarios = <<"s2", "s1">>
    /\ sl_env[1].env.meta = "http" /\ sl_env[1].env.slack = "msgs"
    /\ sl_env[2].env.meta = "ok" /\ sl_env[2].env.slack = "http"
    /\ Len(sl_result.entries) = 2
    /\ sl_result.entries[1].created = NoneOut
    /\ sl_result.entries[2].created # NoneOut
    /\ sl_result.entries[2].slack = "none"

Listed(q) == \E k \in 1..Len(sl_scenarios) : sl_scenarios[k] = q
FirstListed(q) ==
    CHOOSE k \in 1..Len(sl_scenarios) :
        sl_scenarios[k] = q /\ \A j \in 1..(k - 1) : sl_scenarios[j] # q

\* What C14 says about the entries: with an empty scenario_id every listed
\* scenario yields one entry in list order; with a non-blank scenario_id at
\* most one scenario, the first listed one with that id, is fetched and
\* reported and none after it is processed; the call ends with a string.
C14_Entries ==
    /\ (sl_query = "" /\ sl_pc = "returned" /\ sl_listresp = "ok") =>
           /\ Len(sl_out) = Len(sl_scenarios)
           /\ \A k \in 1..Len(sl_out) : sl_out[k].sid = sl_scenarios[k]
    /\ NonBlank(sl_query) =>
           /\ Len(sl_out) <= 1 /\ Len(sl_env) = Len(sl_out)
           /\ \A k \in 1..Len(sl_out) :
                  /\ sl_out[k].sid = sl_query
                  /\ sl_env[k].idx = FirstListed(sl_query)
                  /\ sl_i = FirstListed(sl_query)
    /\ sl_pc = "returned" =>
           sl_result.kind \in {"error", "no_scenarios", "not_found_id", "joined"}
    /\ sl_result.kind = "joined" => sl_result.entries = sl_out /\ sl_out # <<>>

\* C14 as stated: the result is "No scenario found with ID" exactly when no
\* listed scenario has the id.
C14_NotFoundIffNotListed ==
    /\ C14_Entries
    /\ (sl_pc = "returned" /\ NonBlank(sl_query)) =>
           (sl_result.kind = "not_found_id" <=> ~Listed(sl_query))

\* C14: as above, but the result is "No scenario found with ID" exactly when
\* the scenario list was fetched, is not empty and has no scenario with the
\* id; an empty list gives "No scenarios found." and a failed list fetch the
\* error text.
C14_NotFoundIffListedOthersOnly ==
    /\ C14_Entries
    /\ (sl_pc = "returned" /\ NonBlank(sl_query)) =>
           (sl_result.kind = "not_found_id"
               <=> (sl_listresp = "ok" /\ sl_scenarios # <<>> /\ ~Listed(sl_query)))

C14_Witness ==
    /\ sl_pc = "returned"
    /\ sl_query = "s1"
    /\ sl_scenarios = <<"s1", "s1">>
    /\ sl_result.kind = "joined"
    /\ Len(sl_result.entries) = 1
    /\ sl_i = 1

(***************************************************************************)
(* Properties of get_json                                                  *)
(***************************************************************************)
AllFailed == \A k \in 1..Len(gj_log) : ~gj_log[k].ok

\* C15: with retries = r >= 1, get_json issues at most r attempts; it returns
\* the JSON of the first attempt that succeeds and issues none after it;
\* it sleeps backoff * attempt after each failed attempt but the r-th; it
\* raises the error of the r-th attempt exactly when all r attempts failed;
\* it never returns without a value.
C15_RetryThenReturnOrRaise ==
    gj_retries >= 1 =>
        /\ Len(gj_log) = gj_attempt /\ gj_attempt <= gj_retries
        /\ \A k \in 1..(Len(gj_log) - 1) : ~gj_log[k].ok
        /\ gj_pc = "returned" =>
               /\ gj_log # <<>>
               /\ gj_log[Len(gj_log)].ok
               /\ gj_result = GjResult("json", gj_log[Len(gj_log)].val)
        /\ (gj_log # <<>> /\ gj_log[Len(gj_log)].ok) => gj_pc = "returned"
        /\ Len(gj_slept) = Cardinality({k \in 1..Len(gj_log) :
                                            ~gj_log[k].ok /\ k # gj_retries})
        /\ \A k \in 1..Len(gj_slept) : gj_slept[k] = Backoff * k
        /\ gj_pc = "raised" <=> (Len(gj_log) = gj_retries /\ AllFailed)
        /\ gj_pc = "raised" => gj_result = GjResult("exc", gj_log[gj_retries].val)
        /\ gj_result.kind # "none"

C15_Witness ==
    /\ gj_retries = 3
    /\ gj_pc = "raised"
    /\ gj_log = <<Outcome(FALSE, "Timeout"), Outcome(FALSE, "ConnectionError"),
                  Outcome(FALSE, "HTTPError")>>
    /\ gj_slept = <<8, 16>>
    /\ gj_result = GjResult("exc", "HTTPError")

(***************************************************************************)
(* Properties of run_nat.py                                                *)
(***************************************************************************)
\* The text from i to k is "Workflow Result:", white space, "[", text without
\* "]", and "]".
IsWorkflowResult(log, i, k) ==
    /\ log[i] = WR /\ log[k] = RB
    /\ \E j \in (i + 1)..(k - 1) :
           /\ log[j] = LB
           /\ \A x \in (i + 1)..(j - 1) : log[x] = SP
           /\ \A x \in (j + 1)..(k - 1) : log[x] # RB
WorkflowResults(log) ==
    {m \in (1..Len(log)) \X (1..Len(log)) : IsWorkflowResult(log, m[1], m[2])}
\* The last one: it ends last and, of those, starts first.
LastWorkflowResult(log) ==
    CHOOSE m \in WorkflowResults(log) :
        \A n \in WorkflowResults(log) :
            n[2] < m[2] \/ (n[2] = m[2] /\ n[1] >= m[1])
GroupOf(log, m) ==
    LET j == CHOOSE x \in (m[1] + 1)..(m[2] - 1) :
                 log[x] = LB /\ \A y \in (m[1] + 1)..(x - 1) : log[y] = SP
    IN SubSeq(log, j + 1, m[2] - 1)

\* C17: for every captured log, the POST handler answers status success with
\* the content of the last "Workflow Result: [...]" of the log; when the log
\* has none, clean_output raises, run_nat reports success = False, and the
\* handler answers 500 with status error, never success with a null output.
C17_LastWorkflowResultOr500 ==
    (nat_pc = "done" /\ RunsNat(nat_req)) =>
        IF WorkflowResults(nat_log) = {}
        THEN /\ IsExc(clean_output(nat_log))
             /\ nat_resp = NatResp(500, "error", "false", NoneR)
        ELSE /\ clean_output(nat_log)
                    = ValR(GroupOf(nat_log, LastWorkflowResult(nat_log)))
             /\ nat_resp = NatResp(200, "success", "true",
                                   ValR(GroupOf(nat_log, LastWorkflowResult(nat_log))))

C17_Witness ==
    /\ nat_pc = "done"
    /\ RunsNat(nat_req)
    /\ nat_log = <<WR, LB, "r1", RB, CT, SP, "t1", WR, SP, LB, "r2", RB>>
    /\ nat_resp.status = "success"
    /\ nat_resp.output = ValR(<<"r2">>)

====
